---- MODULE Spec2Model ----
(***************************************************************************)
(* hqs: a grim-like screenshot CLI.  The model follows src/src/app.rs:     *)
(* run dispatches to run_capture or run_finalize; each is modelled as a    *)
(* sequence of steps (one action per statement that can fail or that       *)
(* touches the outside world), and the pure helpers are operators.         *)
(*                                                                         *)
(* Option<T> is a tuple: None == <<>>, Some(v) == <<v>>.                   *)
(* A path is [dir |-> <<components>>, file |-> [stem, ext]].               *)
(* A u32 is two 16-bit limbs [hi, lo], so that 2^32-1 is representable.    *)
(***************************************************************************)
EXTENDS Integers, Sequences, FiniteSets, TLC

VARIABLES
    pc,            \* position of the process in run / run_capture / run_finalize
    cmd,           \* cli.cmd: "capture" | "finalize" ("crop" / "dir": function harnesses)
    args,          \* CaptureArgs or FinalizeArgs
    tty,           \* io::stdout().is_terminal()
    outputs,       \* the compositor's live output list (grim.get_outputs())
    env,           \* process environment and directories on disk
    output_file,   \* Option<path>: the resolved output_file / output_path
    region,        \* Option<Box>: the resolved geometry
    scale_region,  \* Option<Box>
    default_scale, \* Option<scale>
    calls,         \* backend capture entry points called so far
    encCalls,      \* encoder / writer entry points called so far
    image,         \* Option<[w, h]>: capture result or cropped image
    sinkFile,      \* what this invocation left at the file sink: absent|partial|complete
    stdoutState,   \* what this invocation wrote to stdout: empty|partial|complete
    created,       \* directories created by this invocation
    base,          \* Option<[w, h]>: the finalize base image on disk, None when absent
    disk,          \* directories on disk when the invocation starts
    failedAt,      \* Option<step name>: the step whose error aborted the run
    res,           \* Option<Result>: what run_capture / run_finalize returned
    errors,        \* number of "Error: ..." lines printed to stderr
    exitCode       \* Option<i32>: what run returned

vars == <<pc, cmd, args, tty, outputs, env, output_file, region, scale_region,
          default_scale, calls, encCalls, image, sinkFile, stdoutState, created,
          base, disk, failedAt, res, errors, exitCode>>

None == <<>>
Some(v) == <<v>>
Unwrap(o) == o[1]

Ok == [ok |-> TRUE, kind |-> "", detail |-> ""]
Err(k, d) == [ok |-> FALSE, kind |-> k, detail |-> d]

\* ---------------------------------------------------------------- bounds
\* Output scale factors range over 1..MaxScale.
MaxScale == 2
\* u32 samples: 0..MaxSmall and 2^32-1-MaxSmall..2^32-1 besides the spec's examples.
MaxSmall == 1

\* ---------------------------------------------------------------- paths
FileName(stem, ext) == [stem |-> stem, ext |-> ext]
Path(dir, file) == [dir |-> dir, file |-> file]
\* Path::new("-")
StdoutPath == Path(<<>>, FileName("-", ""))
\* PathBuf::join
Join(dir, file) == Path(dir, file)
\* Path::parent of a directory path: None for "" and "/"
DirParent(d) == IF d = <<>> \/ d = <<"/">> THEN None ELSE Some(SubSeq(d, 1, Len(d) - 1))
\* Path::exists against the directories on disk; "" never exists, "." always does
Exists(e, d) == d = <<".">> \/ d \in e.dirs

\* ---------------------------------------------------------------- environment
\* A string is a sequence of tokens; "$HOME" and the quote characters are tokens.
RECURSIVE ReplaceHome(_, _)
\* str::replace("$HOME", home)
ReplaceHome(s, home) ==
    IF s = <<>> THEN <<>>
    ELSE (IF Head(s) = "$HOME" THEN home ELSE <<Head(s)>>) \o ReplaceHome(Tail(s), home)

\* expand_home_dir: $HOME is expanded only in a string that starts with it, and
\* only when HOME is set
expand_home_dir(e, s) ==
    IF s # <<>> /\ Head(s) = "$HOME" /\ e.HOME # None
    THEN ReplaceHome(s, Unwrap(e.HOME))
    ELSE s

RECURSIVE TrimStart(_, _)
TrimStart(s, q) == IF s # <<>> /\ Head(s) = q THEN TrimStart(Tail(s), q) ELSE s
RECURSIVE TrimEnd(_, _)
TrimEnd(s, q) ==
    IF s # <<>> /\ s[Len(s)] = q THEN TrimEnd(SubSeq(s, 1, Len(s) - 1), q) ELSE s
\* str::trim_matches
trim_matches(s, q) == TrimEnd(TrimStart(s, q), q)

RECURSIVE ScanUserDirs(_, _)
\* the loop over the lines of user-dirs.dirs: the first XDG_PICTURES_DIR= line wins
ScanUserDirs(e, lines) ==
    IF lines = <<>> THEN None
    ELSE LET line == Head(lines) IN
         IF line.key = "" \/ line.key = "#" THEN ScanUserDirs(e, Tail(lines))
         ELSE IF line.key = "XDG_PICTURES_DIR"
              THEN Some(expand_home_dir(e, trim_matches(trim_matches(line.raw, "\""), "'")))
              ELSE ScanUserDirs(e, Tail(lines))

\* XDG_CONFIG_HOME, else $HOME/.config
ConfigHome(e) ==
    IF e.XDG_CONFIG_HOME # None THEN e.XDG_CONFIG_HOME
    ELSE IF e.HOME # None THEN Some(Unwrap(e.HOME) \o <<".config">>)
    ELSE None

get_xdg_pictures_dir(e) ==
    IF e.XDG_PICTURES_DIR # None
    THEN Some(expand_home_dir(e, Unwrap(e.XDG_PICTURES_DIR)))
    ELSE IF ConfigHome(e) = None THEN None
    ELSE IF e.userDirsAt # ConfigHome(e) THEN None
    ELSE ScanUserDirs(e, e.userDirsLines)

\* GRIM_DEFAULT_DIR is taken when the path or its parent exists
GrimDirAcceptable(e) ==
    /\ e.GRIM_DEFAULT_DIR # None
    /\ LET path == Unwrap(e.GRIM_DEFAULT_DIR) IN
       \/ Exists(e, path)
       \/ (DirParent(path) # None /\ Exists(e, Unwrap(DirParent(path))))

\* get_output_dir with the two sources swapped: XDG pictures before GRIM_DEFAULT_DIR
get_output_dir_xdg_first(e) ==
    IF get_xdg_pictures_dir(e) # None /\ Exists(e, Unwrap(get_xdg_pictures_dir(e)))
    THEN Unwrap(get_xdg_pictures_dir(e))
    ELSE IF GrimDirAcceptable(e) THEN Unwrap(e.GRIM_DEFAULT_DIR)
    ELSE <<".">>

\* GRIM_DEFAULT_DIR > XDG_PICTURES_DIR > "."
get_output_dir(e) ==
    IF GrimDirAcceptable(e) THEN Unwrap(e.GRIM_DEFAULT_DIR)
    ELSE IF get_xdg_pictures_dir(e) # None /\ Exists(e, Unwrap(get_xdg_pictures_dir(e)))
         THEN Unwrap(get_xdg_pictures_dir(e))
         ELSE <<".">>

\* FileType -> extension
Ext(filetype) ==
    CASE filetype = "Png" -> "png"
      [] filetype = "Ppm" -> "ppm"
      [] filetype = "Jpeg" -> "jpeg"

\* <timestamp>_hqs.<ext> in get_output_dir()
generate_default_filename(e, filetype) ==
    Join(get_output_dir(e), FileName("<timestamp>_hqs", Ext(filetype)))

\* <timestamp>_hqs_final.<ext>
generate_finalize_filename(ext) == FileName("<timestamp>_hqs_final", ext)

\* a bare file name: relative to the current directory, no get_output_dir()
generate_default_finalize_filename == Path(<<>>, generate_finalize_filename("png"))

\* ---- the environments explored
Line(key, raw) == [key |-> key, raw |-> raw]
GrimDirs == {None, Some(<<"/", "pics">>), Some(<<"/", "new", "sub">>)}
XdgDirs == {None, Some(<<"/", "xdg">>), Some(<<"$HOME", "Pictures">>)}
ConfigHomes == {None, Some(<<"/", "cfg">>)}
Homes == {None, Some(<<"/", "home">>)}
UserDirsPlaces == {None, Some(<<"/", "cfg">>), Some(<<"/", "home", ".config">>)}
UserDirsContents ==
    { << Line("#", <<>>), Line("", <<>>),
         Line("XDG_DESKTOP_DIR", <<"\"", "$HOME", "Desktop", "\"">>),
         Line("XDG_PICTURES_DIR", <<"\"", "$HOME", "Pictures", "\"">>) >>,
      << Line("XDG_PICTURES_DIR", <<"'", "/", "xdg", "'">>),
         Line("XDG_PICTURES_DIR", <<"/", "pics">>) >>,
      << Line("#", <<>>) >> }
DiskDirs == { <<"/", "pics">>, <<"/", "new">>, <<"/", "new", "sub">>, <<"/", "xdg">>,
              <<"/", "home", "Pictures">> }
\* a directory on disk has its parent on disk
DiskStates ==
    { ds \cup {<<"/">>} : ds \in { s \in SUBSET DiskDirs :
                                     <<"/", "new", "sub">> \in s => <<"/", "new">> \in s } }
Envs ==
    { e \in [GRIM_DEFAULT_DIR : GrimDirs, XDG_PICTURES_DIR : XdgDirs,
             XDG_CONFIG_HOME : ConfigHomes, HOME : Homes,
             userDirsAt : UserDirsPlaces, userDirsLines : UserDirsContents,
             dirs : DiskStates] :
        e.userDirsAt = None => e.userDirsLines = <<Line("#", <<>>)>> }
\* the environments a whole run is explored under: no user-dirs.dirs, every directory on disk
RunEnvs ==
    [GRIM_DEFAULT_DIR : {None, Some(<<"/", "pics">>)},
     XDG_PICTURES_DIR : {None, Some(<<"/", "xdg">>)},
     XDG_CONFIG_HOME : {None}, HOME : {None},
     userDirsAt : {None}, userDirsLines : {<<Line("#", <<>>)>>},
     dirs : {DiskDirs \cup {<<"/">>}}]

\* ---------------------------------------------------------------- u32
Limb == 2 ^ 16
U32(hi, lo) == [hi |-> hi, lo |-> lo]
\* a small number as a u32
Small(n) == U32(0, n)
U32Zero == Small(0)
\* u32::MAX - n, for n < 2^16
NearMax(n) == U32(Limb - 1, Limb - 1 - n)
U32Lt(a, b) == a.hi < b.hi \/ (a.hi = b.hi /\ a.lo < b.lo)
U32Le(a, b) == a = b \/ U32Lt(a, b)

\* u32::wrapping_add: the sum modulo 2^32, never None
wrapping_add(a, b) ==
    LET lo == a.lo + b.lo
        hi == a.hi + b.hi + (lo \div Limb)
    IN  Some(U32(hi % Limb, lo % Limb))

\* u32::checked_add: None when the sum does not fit in 32 bits
checked_add(a, b) ==
    LET lo == a.lo + b.lo
        hi == a.hi + b.hi + (lo \div Limb)
    IN  IF hi >= Limb THEN None ELSE Some(U32(hi % Limb, lo % Limb))

\* parse_crop_px
parse_crop_px(values) ==
    IF Len(values) # 4
    THEN [r |-> Err("FinalizeError", "--crop-px expects exactly 4 integers: x y w h"),
          v |-> None]
    ELSE [r |-> Ok, v |-> Some(<<values[1], values[2], values[3], values[4]>>)]

\* crop_image_px: the Result and, on success, the size of the cropped image
crop_image_px(img, x, y, w, h) ==
    IF w = U32Zero \/ h = U32Zero
    THEN [r |-> Err("FinalizeError", "Crop width/height must be > 0"), img |-> None]
    ELSE LET x2 == checked_add(x, w)
             y2 == checked_add(y, h)
         IN  IF x2 = None \/ y2 = None
             THEN [r |-> Err("FinalizeError", "Crop overflows"), img |-> None]
             ELSE IF \/ ~U32Lt(x, img.w) \/ ~U32Lt(y, img.h)
                     \/ U32Lt(img.w, Unwrap(x2)) \/ U32Lt(img.h, Unwrap(y2))
                  THEN [r |-> Err("FinalizeError", "Crop is out of bounds"), img |-> None]
                  ELSE [r |-> Ok, img |-> Some([w |-> w, h |-> h])]

\* ---------------------------------------------------------------- backend interface
Box(x, y, w, h) == [x |-> x, y |-> y, w |-> w, h |-> h]
\* grim_rs::Box::intersects
Intersects(a, b) ==
    /\ a.x < b.x + b.w /\ b.x < a.x + a.w
    /\ a.y < b.y + b.h /\ b.y < a.y + a.h

\* "X,Y WIDTHxHEIGHT".parse::<Box>()
ParseBox(s) ==
    CASE s = "0,0 1x1" -> [r |-> Ok, box |-> Some(Box(0, 0, 1, 1))]
      [] s = "1,0 2x1" -> [r |-> Ok, box |-> Some(Box(1, 0, 2, 1))]
      [] s = "3,1 1x1" -> [r |-> Ok, box |-> Some(Box(3, 1, 1, 1))]
      [] OTHER -> [r |-> Err("GeometryParseError", s), box |-> None]

SetMax(S) == CHOOSE m \in S : \A n \in S : n <= m
\* Grim::greatest_scale_for_region: the greatest scale among the outputs that
\* intersect the region (all outputs when the region is None), 1 when none does
greatest_scale_for_region(outs, r) ==
    LET hit == { i \in DOMAIN outs : r = None \/ Intersects(outs[i].geometry, Unwrap(r)) }
    IN  IF hit = {} THEN 1 ELSE SetMax({ outs[i].scale : i \in hit })

\* ---------------------------------------------------------------- run_capture helpers
\* the output_file chosen when stdout's terminal test is inverted
ResolveOutputFileInverted(a, isTty, e) ==
    IF a.output_file # None THEN Unwrap(a.output_file)
    ELSE IF isTty THEN StdoutPath
    ELSE generate_default_filename(e, a.filetype)

\* the output_file of run_capture
ResolveOutputFile(a, isTty, e) ==
    IF a.output_file # None THEN Unwrap(a.output_file)
    ELSE IF ~isTty THEN StdoutPath
    ELSE generate_default_filename(e, a.filetype)

\* outputs.iter().find(..) that settles for the first output when the name is unknown
FindOutputOrFirst(outs, name) ==
    IF \E i \in DOMAIN outs : outs[i].name = name
    THEN Some(outs[CHOOSE i \in DOMAIN outs :
                     outs[i].name = name /\ \A j \in 1..(i - 1) : outs[j].name # name])
    ELSE IF outs # <<>> THEN Some(outs[1]) ELSE None

\* outputs.iter().find(|o| o.name() == output_name)
FindOutput(outs, name) ==
    IF \E i \in DOMAIN outs : outs[i].name = name
    THEN Some(outs[CHOOSE i \in DOMAIN outs :
                     outs[i].name = name /\ \A j \in 1..(i - 1) : outs[j].name # name])
    ELSE None

\* scale_region that prefers the requested region over the named output's geometry
ScaleRegionPreferRegion(a, found, reg) ==
    IF a.output # None /\ reg = None THEN Some(Unwrap(found).geometry) ELSE reg

\* scale_region: the named output's geometry, else the region
ScaleRegion(a, found, reg) ==
    IF a.output # None THEN Some(Unwrap(found).geometry) ELSE reg

Call(entry, out, reg, scale, cursor) ==
    [entry |-> entry, output |-> out, region |-> reg, scale |-> scale,
     overlay_cursor |-> cursor]

\* the capture call with the output name ignored once a region is given
CaptureCallRegionFirst(a, reg, scale) ==
    IF reg # None
    THEN IF a.cursor
         THEN Call("capture_region_with_scale_and_cursor", None, reg, scale, TRUE)
         ELSE Call("capture_region_with_scale", None, reg, scale, FALSE)
    ELSE IF a.output # None
    THEN IF a.cursor
         THEN Call("capture_output_with_scale_and_cursor", a.output, None, scale, TRUE)
         ELSE Call("capture_output_with_scale", a.output, None, scale, FALSE)
    ELSE IF a.cursor
         THEN Call("capture_all_with_scale_and_cursor", None, None, scale, TRUE)
         ELSE Call("capture_all_with_scale", None, None, scale, FALSE)

\* the capture call that never asks for the cursor
CaptureCallNoCursor(a, reg, scale) ==
    IF a.output # None
    THEN IF reg # None
         THEN Call("capture_outputs_with_scale", a.output, reg, scale, FALSE)
         ELSE Call("capture_output_with_scale", a.output, None, scale, FALSE)
    ELSE IF reg # None
         THEN Call("capture_region_with_scale", None, reg, scale, FALSE)
         ELSE Call("capture_all_with_scale", None, None, scale, FALSE)

\* the backend entry point run_capture calls, with its arguments
CaptureCall(a, reg, scale) ==
    IF a.output # None
    THEN IF reg # None
         THEN Call("capture_outputs_with_scale", a.output, reg, scale, a.cursor)
         ELSE IF a.cursor
              THEN Call("capture_output_with_scale_and_cursor", a.output, None, scale, TRUE)
              ELSE Call("capture_output_with_scale", a.output, None, scale, FALSE)
    ELSE IF reg # None
         THEN IF a.cursor
              THEN Call("capture_region_with_scale_and_cursor", None, reg, scale, TRUE)
              ELSE Call("capture_region_with_scale", None, reg, scale, FALSE)
    ELSE IF a.cursor
         THEN Call("capture_all_with_scale_and_cursor", None, None, scale, TRUE)
         ELSE Call("capture_all_with_scale", None, None, scale, FALSE)

Enc(entry, sink, param) == [entry |-> entry, sink |-> sink, param |-> param]

write_png_to_stdout(level) ==
    IF level = 6 THEN Enc("write_png_to_stdout", "stdout", None)
    ELSE Enc("write_png_to_stdout_with_compression", "stdout", Some(level))

\* save_png_to_file that treats 9 as the default level
save_png_to_file_default9(level) ==
    IF level = 9 THEN Enc("save_png", "file", None)
    ELSE Enc("save_png_with_compression", "file", Some(level))

save_png_to_file(level) ==
    IF level = 6 THEN Enc("save_png", "file", None)
    ELSE Enc("save_png_with_compression", "file", Some(level))

write_jpeg_to_stdout(quality) ==
    IF quality = 80 THEN Enc("write_jpeg_to_stdout", "stdout", None)
    ELSE Enc("write_jpeg_to_stdout_with_quality", "stdout", Some(quality))

save_jpeg_to_file(quality) ==
    IF quality = 80 THEN Enc("save_jpeg", "file", None)
    ELSE Enc("save_jpeg_with_quality", "file", Some(quality))

write_to_stdout(a) ==
    CASE a.filetype = "Png" -> write_png_to_stdout(a.level)
      [] a.filetype = "Ppm" -> Enc("write_ppm_to_stdout", "stdout", None)
      [] a.filetype = "Jpeg" -> write_jpeg_to_stdout(a.quality)

save_to_file(a) ==
    CASE a.filetype = "Png" -> save_png_to_file(a.level)
      [] a.filetype = "Ppm" -> Enc("save_ppm", "file", None)
      [] a.filetype = "Jpeg" -> save_jpeg_to_file(a.quality)

\* save_or_write_result: the encoder entry point for the resolved output_file
save_or_write_result(a, path) ==
    IF path = StdoutPath THEN write_to_stdout(a) ELSE save_to_file(a)

\* str::to_ascii_lowercase on the extensions explored
to_ascii_lowercase(ext) ==
    CASE ext = "JPG" -> "jpg"
      [] ext = "JPEG" -> "jpeg"
      [] ext = "PNG" -> "png"
      [] OTHER -> ext

\* save_dynamic_image: the encoder chosen from the file extension
save_dynamic_image(path) ==
    LET ext == to_ascii_lowercase(path.file.ext) IN
    CASE ext = "jpg" \/ ext = "jpeg" -> Enc("JpegEncoder::new_with_quality", "file", Some(80))
      [] ext = "png" -> Enc("save_with_format(Png)", "file", None)
      [] ext = "ppm" \/ ext = "pnm" -> Enc("save_with_format(Pnm)", "file", None)
      [] OTHER -> Enc("save_with_format(Png)", "file", None)

\* the match in run with the error arm returning 0
ExitCodeAlwaysZero(r) == 0

\* the match in run: Ok(()) => 0, Err(err) => 1
ExitCode(r) == IF r.ok THEN 0 ELSE 1

\* ---------------------------------------------------------------- requests
OutputList(sa, sb) ==
    << [name |-> "A", geometry |-> Box(0, 0, 2, 2), scale |-> sa],
       [name |-> "B", geometry |-> Box(2, 0, 2, 2), scale |-> sb] >>
OutputLists == { OutputList(sa, sb) : sa \in 1..MaxScale, sb \in 1..MaxScale }

ShotPath == Path(<<"shots">>, FileName("a", "png"))
CaptureRequests ==
    [ scale : {None, Some(MaxScale + 1)},
      geometry : {None, Some("-"), Some("0,0 1x1"), Some("1,0 2x1"), Some("bad")},
      filetype : {"Png", "Ppm", "Jpeg"},
      quality : {80, 50},
      level : {6, 9},
      output : {None, Some("A"), Some("Z")},
      cursor : BOOLEAN,
      output_file : {None, Some(StdoutPath), Some(ShotPath)} ]
\* what a line read from standard input may hold
StdinLines == {"3,1 1x1", "bad"}

CropLists ==
    { << Small(0), Small(0), Small(1), Small(1) >>,
      << Small(1), Small(1), Small(2), Small(2) >>,
      << Small(0), Small(0), Small(0), Small(1) >>,
      << Small(1), Small(0), NearMax(0), Small(1) >>,
      << Small(0), Small(0), Small(1), Small(1), Small(0), Small(0), Small(2), Small(2) >> }
FinalizeRequests ==
    [ base : {"shot.png"},
      crop_px : CropLists,
      delete_base : BOOLEAN,
      output_file : {None, Some(StdoutPath),
                     Some(Path(<<>>, FileName("a", "png"))),
                     Some(Path(<<>>, FileName("a", "txt"))),
                     Some(Path(<<"newdir">>, FileName("a", "JPG"))),
                     Some(Path(<<"newdir">>, FileName("a", "ppm")))} ]

\* the values every specification starts a run with
Fresh ==
    /\ output_file = None /\ region = None /\ scale_region = None
    /\ default_scale = None /\ calls = <<>> /\ encCalls = <<>> /\ image = None
    /\ sinkFile = "absent" /\ stdoutState = "empty" /\ created = {}
    /\ failedAt = None /\ res = None /\ errors = 0 /\ exitCode = None

InitCapture ==
    /\ cmd = "capture" /\ pc = "cap_output_file"
    /\ args \in CaptureRequests
    /\ tty \in BOOLEAN
    /\ outputs \in OutputLists
    /\ env = None /\ base = None /\ disk = {}
    /\ Fresh

InitFinalize ==
    /\ cmd = "finalize" /\ pc = "fin_parse_crop"
    /\ args \in FinalizeRequests
    /\ tty \in BOOLEAN
    /\ outputs = <<>>
    /\ env = None
    /\ base \in {None, Some([w |-> Small(2), h |-> Small(2)])}
    /\ disk \in {{}, {<<"newdir">>}}
    /\ Fresh

Init == InitCapture \/ InitFinalize

\* ---------------------------------------------------------------- run_capture
\* leave run_capture / run_finalize with an error (the ? operator)
Fail(step, e) ==
    /\ failedAt' = Some(step)
    /\ res' = Some(e)
    /\ pc' = "ret"

NoFail == UNCHANGED <<failedAt, res>>

\* lines 45-53
CapOutputFile ==
    /\ pc = "cap_output_file"
    /\ \E e \in RunEnvs : output_file' = Some(ResolveOutputFile(args, tty, e))
    /\ pc' = "cap_grim_new"
    /\ UNCHANGED <<cmd, args, tty, outputs, env, region, scale_region, default_scale,
                   calls, encCalls, image, sinkFile, stdoutState, created, base, disk,
                   failedAt, res, errors, exitCode>>

\* line 55: Grim::new()?
CapGrimNew ==
    /\ pc = "cap_grim_new"
    /\ \/ pc' = "cap_geometry" /\ NoFail
       \/ Fail("grim_new", Err("Backend", "connect"))
    /\ UNCHANGED <<cmd, args, tty, outputs, env, output_file, region, scale_region,
                   default_scale, calls, encCalls, image, sinkFile, stdoutState, created,
                   base, disk, errors, exitCode>>

\* lines 57-61
CapGeometry ==
    /\ pc = "cap_geometry"
    /\ \E line \in StdinLines :
         LET parsed == IF args.geometry = None THEN [r |-> Ok, box |-> None]
                       ELSE IF args.geometry = Some("-") THEN ParseBox(line)
                       ELSE ParseBox(Unwrap(args.geometry))
         IN  IF parsed.r.ok
             THEN region' = parsed.box /\ pc' = "cap_scale_region" /\ NoFail
             ELSE region' = region /\ Fail("geometry", parsed.r)
    /\ UNCHANGED <<cmd, args, tty, outputs, env, output_file, scale_region,
                   default_scale, calls, encCalls, image, sinkFile, stdoutState, created,
                   base, disk, errors, exitCode>>

\* lines 65-74
CapScaleRegion ==
    /\ pc = "cap_scale_region"
    /\ IF args.output = None
       THEN scale_region' = ScaleRegion(args, None, region)
            /\ pc' = "cap_default_scale" /\ NoFail
       ELSE \/ scale_region' = scale_region
               /\ Fail("get_outputs", Err("Backend", "get_outputs"))
            \/ LET found == FindOutput(outputs, Unwrap(args.output)) IN
               IF found = None
               THEN scale_region' = scale_region
                    /\ Fail("find_output", Err("OutputNotFound", Unwrap(args.output)))
               ELSE scale_region' = ScaleRegion(args, found, region)
                    /\ pc' = "cap_default_scale" /\ NoFail
    /\ UNCHANGED <<cmd, args, tty, outputs, env, output_file, region, default_scale,
                   calls, encCalls, image, sinkFile, stdoutState, created, base, disk,
                   errors, exitCode>>

\* lines 76-79
CapDefaultScale ==
    /\ pc = "cap_default_scale"
    /\ IF args.scale # None
       THEN default_scale' = args.scale /\ pc' = "cap_capture" /\ NoFail
       ELSE \/ default_scale' = Some(greatest_scale_for_region(outputs, scale_region))
               /\ pc' = "cap_capture" /\ NoFail
            \/ default_scale' = default_scale
               /\ Fail("greatest_scale", Err("Backend", "greatest_scale_for_region"))
    /\ UNCHANGED <<cmd, args, tty, outputs, env, output_file, region, scale_region,
                   calls, encCalls, image, sinkFile, stdoutState, created, base, disk,
                   errors, exitCode>>

\* lines 81-110: one backend call; it may fail, and capture_outputs_with_scale may
\* return a map without the requested output
CapCapture ==
    /\ pc = "cap_capture"
    /\ LET call == CaptureCall(args, region, Unwrap(default_scale)) IN
       /\ calls' = Append(calls, call)
       /\ \/ image' = Some([w |-> Small(2), h |-> Small(2)])
             /\ pc' = "cap_save" /\ NoFail
          \/ image' = image /\ Fail("capture", Err("Backend", "capture"))
          \/ /\ call.entry = "capture_outputs_with_scale"
             /\ image' = image
             /\ Fail("capture", Err("OutputNotFound", Unwrap(args.output)))
    /\ UNCHANGED <<cmd, args, tty, outputs, env, output_file, region, scale_region,
                   default_scale, encCalls, sinkFile, stdoutState, created, base, disk,
                   errors, exitCode>>

\* line 112 and lines 247-355: one encoder entry point writes the sink; a failed
\* write may leave part of the output behind
CapSave ==
    /\ pc = "cap_save"
    /\ LET enc == save_or_write_result(args, Unwrap(output_file)) IN
       /\ encCalls' = Append(encCalls, enc)
       /\ \/ /\ res' = Some(Ok) /\ failedAt' = failedAt
             /\ IF enc.sink = "stdout"
                THEN stdoutState' = "complete" /\ sinkFile' = sinkFile
                ELSE sinkFile' = "complete" /\ stdoutState' = stdoutState
          \/ /\ res' = Some(Err("Write", enc.entry)) /\ failedAt' = Some("write")
             /\ \E partial \in BOOLEAN :
                  IF enc.sink = "stdout"
                  THEN stdoutState' = (IF partial THEN "partial" ELSE "empty")
                       /\ sinkFile' = sinkFile
                  ELSE sinkFile' = (IF partial THEN "partial" ELSE "absent")
                       /\ stdoutState' = stdoutState
    /\ pc' = "ret"
    /\ UNCHANGED <<cmd, args, tty, outputs, env, output_file, region, scale_region,
                   default_scale, calls, image, created, base, disk, errors, exitCode>>

\* ---------------------------------------------------------------- run
\* lines 14-31: the result becomes the exit code; an error is printed once
RunReturn ==
    /\ pc = "ret"
    /\ exitCode' = Some(ExitCode(Unwrap(res)))
    /\ errors' = IF Unwrap(res).ok THEN errors ELSE errors + 1
    /\ pc' = "done"
    /\ UNCHANGED <<cmd, args, tty, outputs, env, output_file, region, scale_region,
                   default_scale, calls, encCalls, image, sinkFile, stdoutState, created,
                   base, disk, failedAt, res>>

\* ---------------------------------------------------------------- run_finalize
\* line 116
FinParseCrop ==
    /\ pc = "fin_parse_crop"
    /\ IF parse_crop_px(args.crop_px).r.ok
       THEN pc' = "fin_open" /\ NoFail
       ELSE Fail("parse_crop", parse_crop_px(args.crop_px).r)
    /\ UNCHANGED <<cmd, args, tty, outputs, env, output_file, region, scale_region,
                   default_scale, calls, encCalls, image, sinkFile, stdoutState, created,
                   base, disk, errors, exitCode>>

\* lines 118-123: image::open
FinOpen ==
    /\ pc = "fin_open"
    /\ IF base # None
       THEN pc' = "fin_crop" /\ NoFail
       ELSE Fail("open", Err("FinalizeError", "Failed to open base image"))
    /\ UNCHANGED <<cmd, args, tty, outputs, env, output_file, region, scale_region,
                   default_scale, calls, encCalls, image, sinkFile, stdoutState, created,
                   base, disk, errors, exitCode>>

\* line 125
FinCrop ==
    /\ pc = "fin_crop"
    /\ LET v == Unwrap(parse_crop_px(args.crop_px).v)
           c == crop_image_px(Unwrap(base), v[1], v[2], v[3], v[4])
       IN  IF c.r.ok
           THEN image' = c.img /\ pc' = "fin_output_path" /\ NoFail
           ELSE image' = image /\ Fail("crop", c.r)
    /\ UNCHANGED <<cmd, args, tty, outputs, env, output_file, region, scale_region,
                   default_scale, calls, encCalls, sinkFile, stdoutState, created,
                   base, disk, errors, exitCode>>

\* the output_path of run_finalize
FinalizeOutputPath(a) ==
    IF a.output_file # None THEN Unwrap(a.output_file)
    ELSE generate_default_finalize_filename

\* lines 127-133
FinOutputPath ==
    /\ pc = "fin_output_path"
    /\ output_file' = Some(FinalizeOutputPath(args))
    /\ pc' = IF FinalizeOutputPath(args) = StdoutPath THEN "fin_stdout" ELSE "fin_mkdir"
    /\ UNCHANGED <<cmd, args, tty, outputs, env, region, scale_region, default_scale,
                   calls, encCalls, image, sinkFile, stdoutState, created, base, disk,
                   failedAt, res, errors, exitCode>>

\* lines 134-135 and 207-220: encode to memory, then write_all to stdout
FinStdout ==
    /\ pc = "fin_stdout"
    /\ encCalls' = Append(encCalls, Enc("write_to(Png)", "stdout", None))
    /\ \/ stdoutState' = "complete" /\ res' = Some(Ok) /\ failedAt' = failedAt
       \/ stdoutState' = stdoutState
          /\ res' = Some(Err("FinalizeError", "Failed to encode PNG"))
          /\ failedAt' = Some("encode")
       \/ \E partial \in BOOLEAN :
            /\ stdoutState' = (IF partial THEN "partial" ELSE "empty")
            /\ res' = Some(Err("FinalizeError", "Failed to write to stdout"))
            /\ failedAt' = Some("write")
    /\ pc' = "ret"
    /\ UNCHANGED <<cmd, args, tty, outputs, env, output_file, region, scale_region,
                   default_scale, calls, image, sinkFile, created, base, disk, errors,
                   exitCode>>

\* lines 138-147: fs::create_dir_all(parent) unless the parent is empty
FinMkdir ==
    /\ pc = "fin_mkdir"
    /\ LET parent == Unwrap(output_file).dir IN
       IF parent = <<>>
       THEN created' = created /\ pc' = "fin_save" /\ NoFail
       ELSE \/ created' = {parent} \ disk /\ pc' = "fin_save" /\ NoFail
            \/ created' = created
               /\ Fail("mkdir", Err("FinalizeError", "Failed to create output directory"))
    /\ UNCHANGED <<cmd, args, tty, outputs, env, output_file, region, scale_region,
                   default_scale, calls, encCalls, image, sinkFile, stdoutState,
                   base, disk, errors, exitCode>>

\* lines 149-156 and 222-245
FinSave ==
    /\ pc = "fin_save"
    /\ encCalls' = Append(encCalls, save_dynamic_image(Unwrap(output_file)))
    /\ \/ sinkFile' = "complete" /\ res' = Some(Ok) /\ failedAt' = failedAt
       \/ \E partial \in BOOLEAN :
            /\ sinkFile' = (IF partial THEN "partial" ELSE "absent")
            /\ res' = Some(Err("FinalizeError", "Failed to save output"))
            /\ failedAt' = Some("write")
    /\ pc' = "ret"
    /\ UNCHANGED <<cmd, args, tty, outputs, env, output_file, region, scale_region,
                   default_scale, calls, image, stdoutState, created, base, disk, errors,
                   exitCode>>

Next ==
    \/ CapOutputFile \/ CapGrimNew \/ CapGeometry \/ CapScaleRegion \/ CapDefaultScale
    \/ CapCapture \/ CapSave
    \/ FinParseCrop \/ FinOpen \/ FinCrop \/ FinOutputPath \/ FinStdout \/ FinMkdir
    \/ FinSave
    \/ RunReturn

Spec == Init /\ [][Next]_vars

\* ---------------------------------------------------------------- crop_image_px alone
U32Samples ==
    { Small(n) : n \in 0..MaxSmall } \cup { NearMax(n) : n \in 0..MaxSmall }
    \cup { Small(10), Small(100), Small(600), Small(800), Small(1080), Small(1900),
           Small(1920), U32(1, 0) }
ImageSizes ==
    { [w |-> Small(1920), h |-> Small(1080)],
      [w |-> Small(MaxSmall + 1), h |-> Small(MaxSmall + 1)],
      [w |-> U32(1, 0), h |-> Small(1)] }

InitCrop ==
    /\ cmd = "crop" /\ pc = "crop_apply"
    /\ args \in [img : ImageSizes, x : U32Samples, y : U32Samples, w : U32Samples,
                 h : U32Samples]
    /\ tty = FALSE /\ outputs = <<>> /\ env = None /\ base = None /\ disk = {}
    /\ Fresh

\* crop_image_px(&image, x, y, w, h)
CropApply ==
    /\ pc = "crop_apply"
    /\ LET c == crop_image_px(args.img, args.x, args.y, args.w, args.h) IN
       /\ res' = Some(c.r)
       /\ image' = c.img
    /\ pc' = "done"
    /\ UNCHANGED <<cmd, args, tty, outputs, env, output_file, region, scale_region,
                   default_scale, calls, encCalls, sinkFile, stdoutState, created,
                   base, disk, failedAt, errors, exitCode>>

SpecCrop == InitCrop /\ [][CropApply]_vars

\* ---------------------------------------------------------------- default file names alone
InitDir ==
    /\ cmd \in {"capture", "finalize"} /\ pc = "derive"
    /\ args \in [filetype : {"Png", "Ppm", "Jpeg"}, output_file : {None}]
    /\ (cmd = "finalize" => args.filetype = "Png")
    /\ tty \in BOOLEAN
    /\ (cmd = "finalize" => tty)
    /\ env \in { Some(e) : e \in Envs }
    /\ outputs = <<>> /\ base = None /\ disk = {}
    /\ Fresh

\* lines 45-53 of run_capture under a recorded environment
DeriveCapture ==
    /\ pc = "derive" /\ cmd = "capture"
    /\ output_file' = Some(ResolveOutputFile(args, tty, Unwrap(env)))
    /\ pc' = "done"
    /\ UNCHANGED <<cmd, args, tty, outputs, env, region, scale_region, default_scale,
                   calls, encCalls, image, sinkFile, stdoutState, created, base, disk,
                   failedAt, res, errors, exitCode>>

\* lines 127-131 of run_finalize under a recorded environment
DeriveFinalize ==
    /\ pc = "derive" /\ cmd = "finalize"
    /\ output_file' = Some(FinalizeOutputPath(args))
    /\ pc' = "done"
    /\ UNCHANGED <<cmd, args, tty, outputs, env, region, scale_region, default_scale,
                   calls, encCalls, image, sinkFile, stdoutState, created, base, disk,
                   failedAt, res, errors, exitCode>>

NextDir == DeriveCapture \/ DeriveFinalize

SpecDir == InitDir /\ [][NextDir]_vars

\* ================================================================ properties
Range(f) == { f[i] : i \in DOMAIN f }
Finished == pc = "done"
\* the steps of run_capture that come before the backend capture call
BeforeCapture ==
    { Some("grim_new"), Some("geometry"), Some("get_outputs"), Some("find_output"),
      Some("greatest_scale") }
NothingWritten ==
    encCalls = <<>> /\ sinkFile = "absent" /\ stdoutState = "empty" /\ created = {}

\* the capture mode a backend call amounts to
ModeOf(c) ==
    CASE c.entry = "capture_outputs_with_scale" /\ c.output # None /\ c.region # None
           -> "SingleOutputWithRegion"
      [] c.entry \in {"capture_output_with_scale", "capture_output_with_scale_and_cursor"}
           -> "SingleOutput"
      [] c.entry \in {"capture_region_with_scale", "capture_region_with_scale_and_cursor"}
           -> "Region"
      [] c.entry \in {"capture_all_with_scale", "capture_all_with_scale_and_cursor"}
           -> "WholeScreen"
      [] OTHER -> "unknown"
\* the decision table of the specification, section 4.1 step 4
TableMode(hasOutput, hasRegion) ==
    CASE hasOutput /\ hasRegion -> "SingleOutputWithRegion"
      [] hasOutput /\ ~hasRegion -> "SingleOutput"
      [] ~hasOutput /\ hasRegion -> "Region"
      [] OTHER -> "WholeScreen"
\* the scale the specification asks for: the explicit scale, else the greatest
\* scale among the outputs intersecting the reference region
ScaleAsSpecified(s) ==
    IF args.scale # None THEN s = Unwrap(args.scale)
    ELSE LET ref == IF args.output # None
                    THEN Some((CHOOSE o \in Range(outputs) :
                                 o.name = Unwrap(args.output)).geometry)
                    ELSE region
             hit == { o \in Range(outputs) :
                        ref = None \/ Intersects(o.geometry, Unwrap(ref)) }
         IN  hit # {} => /\ \E o \in hit : o.scale = s
                         /\ \A o \in hit : o.scale <= s

\* C1: a capture that gets past resolution (geometry parsed, named output found,
\* backend session and scale query answered) makes exactly one backend capture
\* call, and its mode is the decision table's for (output name present, region
\* present), with the request's output name and the resolved region as arguments;
\* no invocation ever makes more than one capture call.
C1_ModeSelection ==
    cmd = "capture" =>
      /\ Len(calls) <= 1
      /\ (Finished /\ failedAt \notin BeforeCapture) =>
           /\ Len(calls) = 1
           /\ ModeOf(calls[1]) = TableMode(args.output # None, args.geometry # None)
           /\ calls[1].output = args.output
           /\ calls[1].region = region
           /\ (region # None <=> args.geometry # None)

C1_Witness ==
    /\ Finished /\ cmd = "capture" /\ Len(calls) = 1
    /\ ModeOf(calls[1]) = "SingleOutputWithRegion"
    /\ args.cursor /\ args.scale # None /\ args.filetype = "Jpeg"
    /\ args.output_file = Some(StdoutPath)

UnknownOutputNamed ==
    /\ cmd = "capture" /\ args.output # None
    /\ \A o \in Range(outputs) : o.name # Unwrap(args.output)

\* C2 as stated: a request naming an output that is not in the live list fails
\* with OutputNotFound carrying the name whatever its geometry is, calls no
\* capture entry point and writes nothing (the backend session and the output
\* enumeration being available).
C2_Original ==
    (UnknownOutputNamed /\ Finished
       /\ failedAt \notin {Some("grim_new"), Some("get_outputs")}) =>
      /\ res = Some(Err("OutputNotFound", Unwrap(args.output)))
      /\ calls = <<>>
      /\ NothingWritten

\* C2 amended: such a request always fails (exit code 1), never calls a capture
\* entry point and never writes anything; the error is OutputNotFound carrying
\* the name unless the backend session or the output enumeration failed or the
\* geometry was malformed, and a malformed geometry is reported as a parse error.
C2_Amended ==
    UnknownOutputNamed =>
      /\ calls = <<>>
      /\ NothingWritten
      /\ Finished =>
           /\ exitCode = Some(1)
           /\ ~Unwrap(res).ok
           /\ failedAt \notin {Some("grim_new"), Some("get_outputs"), Some("geometry")}
                => res = Some(Err("OutputNotFound", Unwrap(args.output)))
           /\ failedAt = Some("geometry") => Unwrap(res).kind = "GeometryParseError"

C2_Witness ==
    /\ UnknownOutputNamed /\ Finished
    /\ args.geometry = Some("-") /\ region = Some(Box(3, 1, 1, 1))
    /\ args.scale # None
    /\ res = Some(Err("OutputNotFound", "Z"))

\* C3: the scale of every backend capture call is the explicit scale when one is
\* given, else the greatest scale among the outputs intersecting the reference
\* region: the named output's geometry when an output is named (region or not),
\* else the resolved region, else every output.
C3_Scale ==
    cmd = "capture" =>
      /\ \A i \in DOMAIN calls : ScaleAsSpecified(calls[i].scale)
      /\ default_scale # None => ScaleAsSpecified(Unwrap(default_scale))

\* the specification's example: A scale 1, B scale 2, a region across both
C3_Witness ==
    /\ Finished /\ cmd = "capture" /\ Len(calls) = 1
    /\ outputs = OutputList(1, 2)
    /\ args.output = None /\ args.scale = None
    /\ region = Some(Box(1, 0, 2, 1))
    /\ calls[1].scale = 2

SinkOf(path) == IF path = StdoutPath THEN "stdout" ELSE "file"

WideSum(a, b) ==
    LET lo == a.lo + b.lo
        hi == a.hi + b.hi + (lo \div Limb)
    IN  [top |-> hi \div Limb, hi |-> hi % Limb, lo |-> lo % Limb]
\* exact sum <= v
WideLe(sum, v) == sum.top = 0 /\ U32Le(U32(sum.hi, sum.lo), v)
CropArgs(x, y, w, h) ==
    /\ args.x = Small(x) /\ args.y = Small(y) /\ args.w = Small(w) /\ args.h = Small(h)
    /\ args.img = [w |-> Small(1920), h |-> Small(1080)]

\* C5: crop_image_px succeeds exactly when w > 0, h > 0, x < img_w, y < img_h,
\* x + w <= img_w and y + h <= img_h with the sums exact (no wrap-around); on
\* success the image is exactly w x h, on failure there is no image; and the two
\* examples on a 1920x1080 image come out as stated.
C5_Crop ==
    (cmd = "crop" /\ Finished) =>
      LET fits == /\ args.w # U32Zero /\ args.h # U32Zero
                  /\ U32Lt(args.x, args.img.w) /\ U32Lt(args.y, args.img.h)
                  /\ WideLe(WideSum(args.x, args.w), args.img.w)
                  /\ WideLe(WideSum(args.y, args.h), args.img.h)
      IN  /\ Unwrap(res).ok <=> fits
          /\ fits => image = Some([w |-> args.w, h |-> args.h])
          /\ ~fits => image = None
          /\ CropArgs(10, 10, 800, 600) => Unwrap(res).ok
          /\ CropArgs(1900, 0, 100, 100) => Unwrap(res).detail = "Crop is out of bounds"

C5_Witness ==
    /\ cmd = "crop" /\ Finished /\ CropArgs(10, 10, 800, 600)
    /\ res = Some(Ok) /\ image = Some([w |-> Small(800), h |-> Small(600)])

\* C6: with --delete-base the base file is gone after a successful finalize, and
\* it is still there after a successful finalize without the flag.
C6_DeleteBase ==
    (cmd = "finalize" /\ Finished /\ exitCode = Some(0)) =>
      (base = None <=> args.delete_base)

\* the directory a path puts its file in ("" is the current directory)
PlacedIn(path) == IF path.dir = <<>> THEN <<".">> ELSE path.dir
\* the directory the specification's precedence yields
DirByPrecedence(e) ==
    LET grim == e.GRIM_DEFAULT_DIR
        grimOk == /\ grim # None
                  /\ \/ Unwrap(grim) \in e.dirs
                     \/ /\ Len(Unwrap(grim)) > 1
                        /\ SubSeq(Unwrap(grim), 1, Len(Unwrap(grim)) - 1) \in e.dirs
        xdg == get_xdg_pictures_dir(e)
    IN  IF grimOk THEN Unwrap(grim)
        ELSE IF xdg # None /\ Unwrap(xdg) \in e.dirs THEN Unwrap(xdg)
        ELSE <<".">>
DefaultDerived == Finished /\ args.output_file = None /\ (cmd = "finalize" \/ tty)

CompleteAtSink ==
    /\ output_file # None
    /\ IF SinkOf(Unwrap(output_file)) = "stdout"
       THEN stdoutState = "complete" /\ sinkFile = "absent"
       ELSE sinkFile = "complete" /\ stdoutState = "empty"
NothingProduced == sinkFile = "absent" /\ stdoutState = "empty" /\ created = {}

\* C8 as stated: an invocation ends either with a complete image at the sink and
\* exit code 0, or with nothing produced (no file, no directory, no byte on
\* stdout), the error reported once and exit code 1.
C8_Original ==
    (cmd \in {"capture", "finalize"} /\ Finished) =>
      \/ exitCode = Some(0) /\ CompleteAtSink /\ errors = 0
      \/ exitCode = Some(1) /\ NothingProduced /\ errors = 1

\* C8 amended: an invocation ends with exit code 0, a complete image at the sink
\* and nothing reported, or with exit code 1, no complete image and the error
\* reported once; nothing at all has been produced when the failure came before
\* directory creation and the encode/write step, while a failure of those steps
\* may leave the created directories and a partial file or partial stdout bytes.
C8_Amended ==
    cmd \in {"capture", "finalize"} =>
      /\ ~Finished => (exitCode = None /\ errors = 0)
      /\ Finished =>
           /\ exitCode = Some(0) <=> Unwrap(res).ok
           /\ exitCode = Some(1) <=> ~Unwrap(res).ok
           /\ exitCode = Some(0) => (CompleteAtSink /\ errors = 0 /\ failedAt = None)
           /\ exitCode = Some(1) =>
                /\ errors = 1
                /\ sinkFile # "complete" /\ stdoutState # "complete"
                /\ failedAt \notin {Some("write"), Some("mkdir")} => NothingProduced

\* a failed save after the parent directory was created
C8_Witness ==
    /\ cmd = "finalize" /\ Finished /\ exitCode = Some(1) /\ errors = 1
    /\ created = {<<"newdir">>} /\ sinkFile = "partial"

\* what an encoder entry point is: codec, default or explicit parameter, sink
EncoderKind(entry) ==
    CASE entry = "write_png_to_stdout" -> <<"Png", "default", "stdout">>
      [] entry = "write_png_to_stdout_with_compression" -> <<"Png", "explicit", "stdout">>
      [] entry = "save_png" -> <<"Png", "default", "file">>
      [] entry = "save_png_with_compression" -> <<"Png", "explicit", "file">>
      [] entry = "write_jpeg_to_stdout" -> <<"Jpeg", "default", "stdout">>
      [] entry = "write_jpeg_to_stdout_with_quality" -> <<"Jpeg", "explicit", "stdout">>
      [] entry = "save_jpeg" -> <<"Jpeg", "default", "file">>
      [] entry = "save_jpeg_with_quality" -> <<"Jpeg", "explicit", "file">>
      [] entry = "write_ppm_to_stdout" -> <<"Ppm", "raw", "stdout">>
      [] entry = "save_ppm" -> <<"Ppm", "raw", "file">>
      [] OTHER -> <<"unknown", "unknown", "unknown">>

\* C9: capture calls at most one encoder entry point, exactly one when it
\* succeeds; PNG takes the unparameterized entry point iff level = 6 and else the
\* explicit one with that level, JPEG likewise with quality 80, PPM always the
\* raw writer; the choice is the same for the stdout and the file sink.
C9_Encoder ==
    cmd = "capture" =>
      /\ Len(encCalls) <= 1
      /\ res = Some(Ok) => Len(encCalls) = 1
      /\ \A i \in DOMAIN encCalls :
           LET c == encCalls[i]
               k == EncoderKind(c.entry)
           IN  /\ k[1] = args.filetype
               /\ k[3] = SinkOf(Unwrap(output_file))
               /\ args.filetype = "Png" =>
                    /\ k[2] = "default" <=> args.level = 6
                    /\ k[2] = "explicit" <=> args.level # 6
                    /\ c.param = IF args.level = 6 THEN None ELSE Some(args.level)
               /\ args.filetype = "Jpeg" =>
                    /\ k[2] = "default" <=> args.quality = 80
                    /\ k[2] = "explicit" <=> args.quality # 80
                    /\ c.param = IF args.quality = 80 THEN None ELSE Some(args.quality)
               /\ args.filetype = "Ppm" => (k[2] = "raw" /\ c.param = None)

C9_Witness ==
    /\ cmd = "capture" /\ Finished /\ res = Some(Ok)
    /\ args.filetype = "Png" /\ args.level = 9 /\ args.quality = 50
    /\ encCalls = <<Enc("save_png_with_compression", "file", Some(9))>>

CursorVariants ==
    { "capture_output_with_scale_and_cursor", "capture_region_with_scale_and_cursor",
      "capture_all_with_scale_and_cursor" }

\* C10 as stated: in each of the four modes the call overlays the cursor iff the
\* flag is set, and the cursor variant of the mode's entry point is called iff
\* the flag is set.
C10_Original ==
    cmd = "capture" =>
      \A i \in DOMAIN calls :
        /\ calls[i].overlay_cursor <=> args.cursor
        /\ calls[i].entry \in CursorVariants <=> args.cursor

\* C10 amended: in each of the four modes the call overlays the cursor iff the
\* flag is set; WholeScreen, SingleOutput and Region call the cursor variant of
\* their entry point iff the flag is set, while SingleOutputWithRegion has one
\* entry point, capture_outputs_with_scale, which receives the flag in its
\* CaptureParameters; the flag changes neither the mode nor the scale.
C10_Amended ==
    cmd = "capture" =>
      \A i \in DOMAIN calls :
        LET c == calls[i] IN
        /\ c.overlay_cursor <=> args.cursor
        /\ ModeOf(c) # "SingleOutputWithRegion" => (c.entry \in CursorVariants <=> args.cursor)
        /\ ModeOf(c) = "SingleOutputWithRegion" => c.entry = "capture_outputs_with_scale"
        /\ ModeOf(c) = TableMode(args.output # None, args.geometry # None)
        /\ ScaleAsSpecified(c.scale)

C10_Witness ==
    /\ cmd = "capture" /\ Finished /\ args.cursor /\ Len(calls) = 1
    /\ calls[1].entry = "capture_outputs_with_scale" /\ calls[1].overlay_cursor

====
